---- MODULE Spec2Model ----
(***************************************************************************)
(* Model of kwpm-api (src/kwpm-api/src/main.rs): KwpmClient provisions and *)
(* removes one MariaDB instance on a Kubernetes cluster.                   *)
(*                                                                         *)
(* The cluster is the state: the list of namespaces, the cluster-scoped    *)
(* persistent volumes and the namespace-scoped objects.  Every remote call *)
(* of create_mariadb_if_not_exists and remove_mariadb is one atomic step   *)
(* of the calling client; a call either reaches the cluster, which answers *)
(* Ok, Conflict or NotFound, or fails in transport and has no effect.      *)
(* Strings on which the code uses starts_with, ends_with or format! are    *)
(* sequences of characters.                                                *)
(***************************************************************************)
EXTENDS Integers, Sequences, FiniteSets, TLC

VARIABLES namespaces, pvs, objs, pv_base_path, clients, pc, cur, prev, returned

vars == <<namespaces, pvs, objs, pv_base_path, clients, pc, cur, prev, returned>>

cluster == <<namespaces, pvs, objs>>

(***************************************************************************)
(* Bounds                                                                  *)
(***************************************************************************)
\* number of foreign namespaces the cluster may hold before the first call
MaxOther == 4

\* the same, where two clients make several invocations each
MaxConcOther == 2

(***************************************************************************)
(* String literals of the source                                           *)
(***************************************************************************)
KwpmPrefix == <<"k","w","p","m","-">>

MariadbSuffix == <<"-","m","a","r","i","a","d","b">>

NsName == <<"k","w","p","m","-","m","a","r","i","a","d","b">>

\* metadata.name of mariadb-pv.yaml
PvName == "kwpm-mariadb-pv"

\* a pv_name that is not the template's
RemovePvName_Other == "kwpm-mariadb"

\* pv_name of remove_mariadb
RemovePvName == "kwpm-mariadb-pv"

MariadbDir == <<"/","m","a","r","i","a","d","b">>

HostnameKey == "kubernetes.io/hostname"

SecretName == "mysql-pass"

PasswordKey == "password"

(***************************************************************************)
(* Inputs                                                                  *)
(***************************************************************************)
Passwords == {"s3cr3t", "password"}

Hostnames == {"node-a", "node-b", ""}

BasePaths == {<<"/","d">>, <<"/","e","/">>}

\* inputs where two clients make several invocations each
ConcPasswords == {"s3cr3t"}

ConcHostnames == {"node-a", "node-b"}

\* Option<String>: <<>> is None, <<s>> is Some(s)
None == <<>>

Some(s) == <<s>>

\* namespaces of other owners: another managed -mariadb namespace, a
\* managed one without the suffix, an unmanaged one with the suffix, one
\* without a name, an unmanaged one, the bare prefix, the bare word
AllOthers ==
  << [name |-> Some(<<"k","w","p","m","-","x","-","m","a","r","i","a","d","b">>)],
     [name |-> Some(<<"k","w","p","m","-","w","e","b">>)],
     [name |-> Some(<<"x","-","m","a","r","i","a","d","b">>)],
     [name |-> None],
     [name |-> Some(<<"d","e","f","a","u","l","t">>)],
     [name |-> Some(<<"k","w","p","m","-">>)],
     [name |-> Some(<<"m","a","r","i","a","d","b">>)] >>

RECURSIVE Pick(_, _, _)
Pick(seq, mask, i) ==
  IF i > Len(seq) THEN <<>>
  ELSE (IF i \in mask THEN <<seq[i]>> ELSE <<>>) \o Pick(seq, mask, i + 1)

InitialNamespaceLists == { Pick(AllOthers, mask, 1) : mask \in SUBSET (1..MaxOther) }

(***************************************************************************)
(* NamespaceRegistry: get_namespaces, get_kwpm_namespaces,                 *)
(* is_mariadb_created                                                      *)
(***************************************************************************)
StartsWith(s, pre) == Len(s) >= Len(pre) /\ SubSeq(s, 1, Len(pre)) = pre

EndsWith(s, suf) == Len(s) >= Len(suf) /\ SubSeq(s, Len(s) - Len(suf) + 1, Len(s)) = suf

\* ns.metadata.name.as_ref().unwrap_or(&"".to_string())
NameOrEmpty(ns) == IF ns.name = None THEN <<>> ELSE ns.name[1]

\* ends_with where the code has starts_with
IsKwpmName_EndsWith(ns) == EndsWith(NameOrEmpty(ns), KwpmPrefix)

IsKwpmName(ns) == StartsWith(NameOrEmpty(ns), KwpmPrefix)

\* starts_with where the code has ends_with
IsMariadbName_StartsWith(ns) == StartsWith(NameOrEmpty(ns), MariadbSuffix)

IsMariadbName(ns) == EndsWith(NameOrEmpty(ns), MariadbSuffix)

get_kwpm_namespaces(list) == SelectSeq(list, IsKwpmName)

\* all() where the code has any()
is_mariadb_created_All(list) ==
  LET kwpm_namespaces == get_kwpm_namespaces(list)
  IN \A i \in 1..Len(kwpm_namespaces) : IsMariadbName(kwpm_namespaces[i])

\* the suffix looked for in all namespaces, not in the managed ones
is_mariadb_created_Unfiltered(list) ==
  \E i \in 1..Len(list) : IsMariadbName(list[i])

is_mariadb_created(list) ==
  LET kwpm_namespaces == get_kwpm_namespaces(list)
  IN \E i \in 1..Len(kwpm_namespaces) : IsMariadbName(kwpm_namespaces[i])

(***************************************************************************)
(* Objects composed by create_mariadb_if_not_exists                        *)
(***************************************************************************)
NamespaceObject == [name |-> Some(NsName)]

\* mariadb-pv.yaml as parsed: a local volume named kwpm-mariadb-pv
PvTemplate ==
  [name |-> PvName, hasSpec |-> TRUE, hasLocal |-> TRUE,
   path |-> <<"/","t","m","p">>, affinity |-> <<>>]

\* the requirement built by the node-affinity block
pinToHost(hostname) ==
  << [key |-> HostnameKey, operator |-> "In", values |-> <<hostname>>] >>

\* the directory appended without its separator
MakePv_NoSeparator(base, hostname) ==
  IF PvTemplate.hasSpec
  THEN [PvTemplate EXCEPT
          !.path = IF PvTemplate.hasLocal THEN base \o Tail(MariadbDir) ELSE @,
          !.affinity = pinToHost(hostname)]
  ELSE PvTemplate

MakePv(base, hostname) ==
  IF PvTemplate.hasSpec
  THEN [PvTemplate EXCEPT
          !.path = IF PvTemplate.hasLocal THEN base \o MariadbDir ELSE @,
          !.affinity = pinToHost(hostname)]
  ELSE PvTemplate

MakeSecret(password) ==
  [kind |-> "secret", name |-> SecretName, data |-> << <<PasswordKey, password>> >>]

PvcObject == [kind |-> "pvc", name |-> "mariadb-pvc", data |-> <<>>]

SvcObject == [kind |-> "svc", name |-> "mariadb", data |-> <<>>]

DeploymentObject == [kind |-> "deployment", name |-> "mariadb", data |-> <<>>]

(***************************************************************************)
(* The cluster's answers                                                   *)
(***************************************************************************)
HasNamespace(name) == \E i \in 1..Len(namespaces) : namespaces[i].name = Some(name)

HasPv(name) == \E v \in pvs : v.name = name

HasObj(ns, kind) == \E o \in objs : o.ns = ns /\ o.kind = kind

AnswerCreateNamespace(obj) ==
  IF \E i \in 1..Len(namespaces) : namespaces[i].name = obj.name THEN "Conflict" ELSE "Ok"

AnswerCreatePv(obj) == IF HasPv(obj.name) THEN "Conflict" ELSE "Ok"

AnswerCreateNamespaced(ns, obj) ==
  IF ~HasNamespace(ns) THEN "NotFound"
  ELSE IF \E o \in objs : o.ns = ns /\ o.kind = obj.kind /\ o.name = obj.name THEN "Conflict"
  ELSE "Ok"

AnswerDeleteNamespace(name) == IF HasNamespace(name) THEN "Ok" ELSE "NotFound"

AnswerDeletePv(name) == IF HasPv(name) THEN "Ok" ELSE "NotFound"

\* what a call returns: the cluster's answer, or a transport failure
Responses(answer) == {answer, "Transport"}

(***************************************************************************)
(* Invocation records                                                      *)
(***************************************************************************)
NoInvocation == [op |-> "none", password |-> "", hostname |-> "", log |-> <<>>,
                 result |-> "none", err |-> "none", pre |-> <<>>, value |-> <<>>]

NewInvocation(op, password, hostname) ==
  [op |-> op, password |-> password, hostname |-> hostname, log |-> <<>>,
   result |-> "pending", err |-> "none", pre |-> cluster, value |-> <<>>]

\* the volume claim created before the volume
NextStep_ClaimFirst(at) ==
  CASE at = "create_ns" -> "create_pvc"
    [] at = "create_pvc" -> "create_pv"
    [] at = "create_pv" -> "create_svc"
    [] at = "create_svc" -> "create_secret"
    [] at = "create_secret" -> "create_deployment"
    [] at = "create_deployment" -> "idle"
    [] at = "delete_ns" -> "delete_pv"
    [] at = "delete_pv" -> "idle"

\* the secret never created
NextStep_NoSecret(at) ==
  CASE at = "create_ns" -> "create_pv"
    [] at = "create_pv" -> "create_pvc"
    [] at = "create_pvc" -> "create_svc"
    [] at = "create_svc" -> "create_deployment"
    [] at = "create_secret" -> "create_deployment"
    [] at = "create_deployment" -> "idle"
    [] at = "delete_ns" -> "delete_pv"
    [] at = "delete_pv" -> "idle"

\* the statement that follows a remote call (lines 128-139, 147-152)
NextStep(at) ==
  CASE at = "create_ns" -> "create_pv"
    [] at = "create_pv" -> "create_pvc"
    [] at = "create_pvc" -> "create_svc"
    [] at = "create_svc" -> "create_secret"
    [] at = "create_secret" -> "create_deployment"
    [] at = "create_deployment" -> "idle"
    [] at = "delete_ns" -> "delete_pv"
    [] at = "delete_pv" -> "idle"

\* the bail! left out
CheckOutcome_NoBail(res, list) ==
  IF res # "Ok" THEN "RemoteAPIError" ELSE "proceed"

\* lines 62-64: `?` on the listing, then bail! when an instance is found
CheckOutcome(res, list) ==
  IF res # "Ok" THEN "RemoteAPIError"
  ELSE IF is_mariadb_created(list) THEN "AlreadyExistsError"
  ELSE "proceed"

\* the result of a remote call dropped instead of propagated with `?`
Respond_NoPropagation(p, inv, call, obj, res) ==
  LET log2 == Append(inv.log, [call |-> call, obj |-> obj, res |-> res])
      nextpc == NextStep(call)
  IN IF nextpc # "idle"
     THEN /\ pc' = [pc EXCEPT ![p] = nextpc]
          /\ cur' = [cur EXCEPT ![p] = [inv EXCEPT !.log = log2]]
          /\ returned' = 0
     ELSE /\ pc' = [pc EXCEPT ![p] = "idle"]
          /\ cur' = [cur EXCEPT ![p] = [inv EXCEPT !.log = log2, !.result = "Ok", !.err = "none"]]
          /\ returned' = p

\* a NotFound answer taken for success
Respond_NotFoundIsOk(p, inv, call, obj, res) ==
  LET log2 == Append(inv.log, [call |-> call, obj |-> obj, res |-> res])
      nextpc == NextStep(call)
      ok == res \in {"Ok", "NotFound"}
  IN IF ok /\ nextpc # "idle"
     THEN /\ pc' = [pc EXCEPT ![p] = nextpc]
          /\ cur' = [cur EXCEPT ![p] = [inv EXCEPT !.log = log2]]
          /\ returned' = 0
     ELSE /\ pc' = [pc EXCEPT ![p] = "idle"]
          /\ cur' = [cur EXCEPT ![p] =
                       [inv EXCEPT !.log = log2,
                                   !.result = IF ok THEN "Ok" ELSE "RemoteAPIError",
                                   !.err = IF ok THEN "none" ELSE res]]
          /\ returned' = p

\* the cluster's conflict reported as the instance existing already
Respond_ConflictAsAlreadyExists(p, inv, call, obj, res) ==
  LET log2 == Append(inv.log, [call |-> call, obj |-> obj, res |-> res])
      nextpc == NextStep(call)
  IN IF res = "Ok" /\ nextpc # "idle"
     THEN /\ pc' = [pc EXCEPT ![p] = nextpc]
          /\ cur' = [cur EXCEPT ![p] = [inv EXCEPT !.log = log2]]
          /\ returned' = 0
     ELSE /\ pc' = [pc EXCEPT ![p] = "idle"]
          /\ cur' = [cur EXCEPT ![p] =
                       [inv EXCEPT !.log = log2,
                                   !.result = IF res = "Ok" THEN "Ok"
                                              ELSE IF res = "Conflict" THEN "AlreadyExistsError"
                                              ELSE "RemoteAPIError",
                                   !.err = IF res = "Ok" THEN "none" ELSE res]]
          /\ returned' = p

\* `?` on the result of one remote call: Ok continues with the next
\* statement, an error returns it; nextpc = "idle" is the final Ok(())
Respond(p, inv, call, obj, res) ==
  LET log2 == Append(inv.log, [call |-> call, obj |-> obj, res |-> res])
      nextpc == NextStep(call)
  IN IF res = "Ok" /\ nextpc # "idle"
     THEN /\ pc' = [pc EXCEPT ![p] = nextpc]
          /\ cur' = [cur EXCEPT ![p] = [inv EXCEPT !.log = log2]]
          /\ returned' = 0
     ELSE /\ pc' = [pc EXCEPT ![p] = "idle"]
          /\ cur' = [cur EXCEPT ![p] =
                       [inv EXCEPT !.log = log2,
                                   !.result = IF res = "Ok" THEN "Ok" ELSE "RemoteAPIError",
                                   !.err = IF res = "Ok" THEN "none" ELSE res]]
          /\ returned' = p

(***************************************************************************)
(* Initial state                                                           *)
(***************************************************************************)
InitCommon ==
  /\ namespaces \in InitialNamespaceLists
  /\ pvs = {}
  /\ objs = {}
  /\ pv_base_path \in BasePaths
  /\ pc = [p \in {1, 2} |-> "idle"]
  /\ cur = [p \in {1, 2} |-> NoInvocation]
  /\ prev = [p \in {1, 2} |-> NoInvocation]
  /\ returned = 0

Init == InitCommon /\ clients = {1}

RECURSIVE Reverse(_)
Reverse(seq) == IF seq = <<>> THEN <<>> ELSE Reverse(Tail(seq)) \o <<Head(seq)>>

\* what a listing may return: foreign namespaces and kwpm-mariadb, in
\* either order
RegistryLists ==
  LET lists == { Pick(SubSeq(AllOthers, 1, MaxOther) \o <<NamespaceObject>>, mask, 1) :
                   mask \in SUBSET (1..(MaxOther + 1)) }
  IN lists \cup { Reverse(l) : l \in lists }

\* the registry alone: one client that only lists
InitRegistry ==
  /\ namespaces \in RegistryLists
  /\ pvs = {}
  /\ objs = {}
  /\ pv_base_path \in BasePaths
  /\ pc = [p \in {1, 2} |-> "idle"]
  /\ cur = [p \in {1, 2} |-> NoInvocation]
  /\ prev = [p \in {1, 2} |-> NoInvocation]
  /\ returned = 0
  /\ clients = {1}

InitConc == InitCommon /\ clients = {1, 2}

InitConcSmall ==
  /\ namespaces \in { Pick(AllOthers, mask, 1) : mask \in SUBSET (1..MaxConcOther) }
  /\ pvs = {}
  /\ objs = {}
  /\ pv_base_path = <<"/","d">>
  /\ pc = [p \in {1, 2} |-> "idle"]
  /\ cur = [p \in {1, 2} |-> NoInvocation]
  /\ prev = [p \in {1, 2} |-> NoInvocation]
  /\ returned = 0
  /\ clients = {1, 2}

(***************************************************************************)
(* get_kwpm_namespaces called on its own (test, line 183)                  *)
(***************************************************************************)
GetKwpmNamespacesCall(p) ==
  /\ pc[p] = "idle"
  /\ \E res \in Responses("Ok") :
       LET inv == NewInvocation("get_kwpm", "", "")
           log2 == <<[call |-> "list_ns", obj |-> <<>>, res |-> res]>>
       IN cur' = [cur EXCEPT ![p] =
                    [inv EXCEPT !.log = log2,
                                !.result = IF res # "Ok" THEN "RemoteAPIError" ELSE "Ok",
                                !.err = IF res = "Ok" THEN "none" ELSE res,
                                !.value = IF res = "Ok" THEN get_kwpm_namespaces(namespaces)
                                          ELSE <<>>]]
  /\ prev' = [prev EXCEPT ![p] = cur[p]]
  /\ returned' = p
  /\ UNCHANGED <<namespaces, pvs, objs, pv_base_path, clients, pc>>

(***************************************************************************)
(* is_mariadb_created called on its own (tests, lines 190 and 207)         *)
(***************************************************************************)
IsMariadbCreatedCall(p) ==
  /\ pc[p] = "idle"
  /\ \E res \in Responses("Ok") :
       LET inv == NewInvocation("is_created", "", "")
           log2 == <<[call |-> "list_ns", obj |-> <<>>, res |-> res]>>
       IN cur' = [cur EXCEPT ![p] =
                    [inv EXCEPT !.log = log2,
                                !.result = IF res # "Ok" THEN "RemoteAPIError"
                                           ELSE IF is_mariadb_created(namespaces) THEN "true"
                                           ELSE "false",
                                !.err = IF res = "Ok" THEN "none" ELSE res]]
  /\ prev' = [prev EXCEPT ![p] = cur[p]]
  /\ returned' = p
  /\ UNCHANGED <<namespaces, pvs, objs, pv_base_path, clients, pc>>

(***************************************************************************)
(* create_mariadb_if_not_exists                                            *)
(***************************************************************************)
\* lines 62-64: the existence check
CreateCheckWith(p, passwords, hostnames) ==
  /\ pc[p] = "idle"
  /\ \E password \in passwords, hostname \in hostnames, res \in Responses("Ok") :
       LET inv == NewInvocation("create", password, hostname)
           log2 == <<[call |-> "list_ns", obj |-> <<>>, res |-> res]>>
           outcome == CheckOutcome(res, namespaces)
       IN IF outcome = "proceed"
          THEN /\ cur' = [cur EXCEPT ![p] = [inv EXCEPT !.log = log2]]
               /\ pc' = [pc EXCEPT ![p] = "create_ns"]
               /\ returned' = 0
          ELSE /\ cur' = [cur EXCEPT ![p] =
                            [inv EXCEPT !.log = log2, !.result = outcome,
                                        !.err = IF res # "Ok" THEN res ELSE "none"]]
               /\ pc' = pc
               /\ returned' = p
  /\ prev' = [prev EXCEPT ![p] = cur[p]]
  /\ UNCHANGED <<namespaces, pvs, objs, pv_base_path, clients>>

CreateCheck(p) == CreateCheckWith(p, Passwords, Hostnames)

\* the namespace named after the node instead of by the fixed ns_name
CreateNamespace_NamedAfterHost(p) ==
  /\ pc[p] = "create_ns"
  /\ LET namespace == [name |-> Some(KwpmPrefix \o <<cur[p].hostname>> \o MariadbSuffix)]
     IN \E res \in Responses(AnswerCreateNamespace(namespace)) :
          /\ namespaces' = IF res = "Ok" THEN Append(namespaces, namespace) ELSE namespaces
          /\ Respond(p, cur[p], "create_ns", namespace, res)
  /\ UNCHANGED <<pvs, objs, pv_base_path, clients, prev>>

\* lines 128-130
CreateNamespace(p) ==
  /\ pc[p] = "create_ns"
  /\ \E res \in Responses(AnswerCreateNamespace(NamespaceObject)) :
       /\ namespaces' = IF res = "Ok" THEN Append(namespaces, NamespaceObject) ELSE namespaces
       /\ Respond(p, cur[p], "create_ns", NamespaceObject, res)
  /\ UNCHANGED <<pvs, objs, pv_base_path, clients, prev>>

\* line 131
CreatePv(p) ==
  /\ pc[p] = "create_pv"
  /\ LET pv == MakePv(pv_base_path, cur[p].hostname)
     IN \E res \in Responses(AnswerCreatePv(pv)) :
          /\ pvs' = IF res = "Ok" THEN pvs \cup {pv} ELSE pvs
          /\ Respond(p, cur[p], "create_pv", pv, res)
  /\ UNCHANGED <<namespaces, objs, pv_base_path, clients, prev>>

\* a create through Api::namespaced(client, ns_name)
CreateNamespaced(p, at, obj) ==
  /\ pc[p] = at
  /\ \E res \in Responses(AnswerCreateNamespaced(NsName, obj)) :
       /\ objs' = IF res = "Ok" THEN objs \cup {[ns |-> NsName, kind |-> obj.kind,
                                                 name |-> obj.name, data |-> obj.data]}
                  ELSE objs
       /\ Respond(p, cur[p], at, obj, res)
  /\ UNCHANGED <<namespaces, pvs, pv_base_path, clients, prev>>

\* line 132
CreatePvc(p) == CreateNamespaced(p, "create_pvc", PvcObject)

\* line 133
CreateSvc(p) == CreateNamespaced(p, "create_svc", SvcObject)

\* line 134
CreateSecret(p) ==
  CreateNamespaced(p, "create_secret", MakeSecret(cur[p].password))

\* lines 135-139
CreateDeployment(p) == CreateNamespaced(p, "create_deployment", DeploymentObject)

(***************************************************************************)
(* remove_mariadb                                                          *)
(***************************************************************************)
\* lines 146-147; deleting a namespace deletes the objects in it
RemoveDeleteNamespace(p) ==
  /\ pc[p] = "idle"
  /\ \E res \in Responses(AnswerDeleteNamespace(NsName)) :
       /\ namespaces' = IF res = "Ok"
                        THEN SelectSeq(namespaces, LAMBDA ns : ns.name # Some(NsName))
                        ELSE namespaces
       /\ objs' = IF res = "Ok" THEN {o \in objs : o.ns # NsName} ELSE objs
       /\ Respond(p, NewInvocation("remove", "", ""), "delete_ns", NsName, res)
  /\ prev' = [prev EXCEPT ![p] = cur[p]]
  /\ UNCHANGED <<pvs, pv_base_path, clients>>

\* lines 149-152
RemoveDeletePv(p) ==
  /\ pc[p] = "delete_pv"
  /\ \E res \in Responses(AnswerDeletePv(RemovePvName)) :
       /\ pvs' = IF res = "Ok" THEN {v \in pvs : v.name # RemovePvName} ELSE pvs
       /\ Respond(p, cur[p], "delete_pv", RemovePvName, res)
  /\ UNCHANGED <<namespaces, objs, pv_base_path, clients, prev>>

(***************************************************************************)
(* Specifications                                                          *)
(***************************************************************************)
Next ==
  \/ \E p \in clients : IsMariadbCreatedCall(p)
  \/ \E p \in clients : CreateCheck(p)
  \/ \E p \in clients : CreateNamespace(p)
  \/ \E p \in clients : CreatePv(p)
  \/ \E p \in clients : CreatePvc(p)
  \/ \E p \in clients : CreateSvc(p)
  \/ \E p \in clients : CreateSecret(p)
  \/ \E p \in clients : CreateDeployment(p)
  \/ \E p \in clients : RemoveDeleteNamespace(p)
  \/ \E p \in clients : RemoveDeletePv(p)

\* one client, invocations one after the other
Spec == Init /\ [][Next]_vars

\* a client that has made at most one invocation so far
FewInvocations(p) == prev[p].op = "none"

\* a client that has made no invocation so far
NoInvocationYet(p) == cur[p].op = "none"

NextConc ==
  \/ \E p \in clients : FewInvocations(p) /\ CreateCheckWith(p, ConcPasswords, ConcHostnames)
  \/ \E p \in clients : CreateNamespace(p)
  \/ \E p \in clients : CreatePv(p)
  \/ \E p \in clients : CreatePvc(p)
  \/ \E p \in clients : CreateSvc(p)
  \/ \E p \in clients : CreateSecret(p)
  \/ \E p \in clients : CreateDeployment(p)
  \/ \E p \in clients : FewInvocations(p) /\ RemoveDeleteNamespace(p)
  \/ \E p \in clients : RemoveDeletePv(p)

\* two clients, remote calls interleaved, at most two invocations each
SpecConc == InitConcSmall /\ [][NextConc]_vars

NextRace ==
  \/ \E p \in clients : NoInvocationYet(p) /\ CreateCheck(p)
  \/ \E p \in clients : CreateNamespace(p)
  \/ \E p \in clients : CreatePv(p)
  \/ \E p \in clients : CreatePvc(p)
  \/ \E p \in clients : CreateSvc(p)
  \/ \E p \in clients : CreateSecret(p)
  \/ \E p \in clients : CreateDeployment(p)

\* two clients, one create_mariadb_if_not_exists each, no remove_mariadb
SpecRace == InitConc /\ [][NextRace]_vars

NextRegistry ==
  \/ \E p \in clients : GetKwpmNamespacesCall(p)
  \/ \E p \in clients : IsMariadbCreatedCall(p)

\* the read path over every listing
SpecRegistry == InitRegistry /\ [][NextRegistry]_vars

(***************************************************************************)
(* Vocabulary of the properties                                            *)
(***************************************************************************)
CreationOrder ==
  <<"create_ns", "create_pv", "create_pvc", "create_svc", "create_secret", "create_deployment">>

CreationCalls == {CreationOrder[i] : i \in 1..Len(CreationOrder)}

IsCreationCall(r) == r.call \in CreationCalls

IsMutatingCall(r) == r.call # "list_ns"

\* the creation calls an invocation has issued, in the order of issue
Creations(inv) == SelectSeq(inv.log, IsCreationCall)

Faulted(inv) == \E i \in 1..Len(inv.log) : inv.log[i].res = "Transport"

CreatedNamespace(inv) ==
  \E i \in 1..Len(inv.log) : inv.log[i].call = "create_ns" /\ inv.log[i].res = "Ok"

\* the object a successful creation call made is in the cluster
InCluster(r) ==
  CASE r.call = "create_ns" -> HasNamespace(NsName)
    [] r.call = "create_pv" -> r.obj \in pvs
    [] OTHER -> [ns |-> NsName, kind |-> r.obj.kind, name |-> r.obj.name,
                 data |-> r.obj.data] \in objs

\* none of the six resources of the instance is in the cluster
NoInstanceResource ==
  /\ ~HasNamespace(NsName)
  /\ ~HasPv(PvName)
  /\ \A o \in objs : o.ns # NsName

\* the same, of the cluster an invocation started from
StartedClean(inv) ==
  /\ \A i \in 1..Len(inv.pre[1]) : inv.pre[1][i].name # Some(NsName)
  /\ \A v \in inv.pre[2] : v.name # PvName
  /\ \A o \in inv.pre[3] : o.ns # NsName

(***************************************************************************)
(* C1                                                                      *)
(***************************************************************************)
\* C1 as stated: of two create_mariadb_if_not_exists calls in succession
\* the second returns AlreadyExistsError and issues no creation call.
C1_SecondCreateAlwaysAlreadyExists ==
  \A p \in clients :
    (returned = p /\ cur[p].op = "create" /\ prev[p].op = "create")
      => (cur[p].result = "AlreadyExistsError" /\ Len(Creations(cur[p])) = 0)

\* C1 amended: when the first of two successive create calls created the
\* namespace or returned AlreadyExistsError itself, the second call issues
\* nothing but the namespace listing, leaves the cluster as it was, and
\* fails: with AlreadyExistsError when the listing is answered, with
\* RemoteAPIError when the listing fails.
C1_SecondCreateRejected ==
  \A p \in clients :
    (/\ returned = p /\ cur[p].op = "create" /\ prev[p].op = "create"
     /\ (CreatedNamespace(prev[p]) \/ prev[p].result = "AlreadyExistsError"))
      => /\ Len(cur[p].log) = 1
         /\ cur[p].log[1].call = "list_ns"
         /\ cluster = cur[p].pre
         /\ cur[p].result = IF cur[p].log[1].res = "Ok" THEN "AlreadyExistsError"
                            ELSE "RemoteAPIError"

\* a second create rejected right after a successful first one
C1_Witness ==
  /\ returned = 1 /\ cur[1].op = "create" /\ cur[1].result = "AlreadyExistsError"
  /\ prev[1].op = "create" /\ prev[1].result = "Ok"

(***************************************************************************)
(* C2                                                                      *)
(***************************************************************************)
\* C2: right after a successful create the existence check is true, and
\* right after a successful remove it is false.
C2_RoundTrip ==
  \A p \in clients :
    returned = p =>
      /\ (cur[p].op = "create" /\ cur[p].result = "Ok") => is_mariadb_created(namespaces)
      /\ (cur[p].op = "remove" /\ cur[p].result = "Ok") => ~is_mariadb_created(namespaces)

\* a successful remove right after a successful create
C2_Witness ==
  /\ returned = 1 /\ cur[1].op = "remove" /\ cur[1].result = "Ok"
  /\ prev[1].op = "create" /\ prev[1].result = "Ok"
  /\ ~is_mariadb_created(namespaces)

(***************************************************************************)
(* C3                                                                      *)
(***************************************************************************)
\* C3: the i-th creation call of an invocation is the i-th of the order
\* namespace, volume, claim, service, secret, deployment, and it is issued
\* only when the one before it returned Ok.
C3_CreationOrder ==
  \A p \in clients :
    LET c == Creations(cur[p])
    IN /\ Len(c) <= Len(CreationOrder)
       /\ \A i \in 1..Len(c) :
            /\ c[i].call = CreationOrder[i]
            /\ i > 1 => c[i - 1].res = "Ok"

\* all six creation calls have been issued
C3_Witness == Len(Creations(cur[1])) = 6 /\ cur[1].result = "Ok"

(***************************************************************************)
(* C4                                                                      *)
(***************************************************************************)
\* C4: a failed creation call is the last call of its invocation, which
\* has returned that error; the invocation issued no deletion, and when it
\* returns the objects of its earlier creation calls are in the cluster.
C4_FirstFailureAborts ==
  \A p \in clients :
    cur[p].op = "create" =>
      \A k \in 1..Len(cur[p].log) :
        (IsCreationCall(cur[p].log[k]) /\ cur[p].log[k].res # "Ok") =>
          /\ k = Len(cur[p].log)
          /\ pc[p] = "idle"
          /\ cur[p].result = "RemoteAPIError"
          /\ cur[p].err = cur[p].log[k].res
          /\ \A j \in 1..(k - 1) :
               /\ cur[p].log[j].call \in CreationCalls \cup {"list_ns"}
               /\ cur[p].log[j].res = "Ok"
               /\ (returned = p /\ IsCreationCall(cur[p].log[j])) => InCluster(cur[p].log[j])

\* a create that failed at its fourth creation call
C4_Witness ==
  /\ returned = 1 /\ cur[1].op = "create" /\ cur[1].result = "RemoteAPIError"
  /\ Len(Creations(cur[1])) = 4
  /\ HasNamespace(NsName) /\ HasPv(PvName) /\ HasObj(NsName, "pvc") /\ ~HasObj(NsName, "svc")

(***************************************************************************)
(* C5                                                                      *)
(***************************************************************************)
\* C5: a create whose listing is answered with a managed namespace ending
\* in -mariadb returns AlreadyExistsError, has issued no call but the
\* listing, and leaves the cluster as it was.
C5_ExistingInstanceNoOp ==
  \A p \in clients :
    (/\ cur[p].op = "create"
     /\ cur[p].log[1].res = "Ok"
     /\ is_mariadb_created(cur[p].pre[1]))
      => /\ cur[p].result = "AlreadyExistsError"
         /\ pc[p] = "idle"
         /\ \A i \in 1..Len(cur[p].log) : ~IsMutatingCall(cur[p].log[i])
         /\ returned = p => cluster = cur[p].pre

\* a create rejected because of a partly created instance
C5_Witness ==
  /\ returned = 1 /\ cur[1].op = "create" /\ cur[1].result = "AlreadyExistsError"
  /\ HasNamespace(NsName) /\ ~HasObj(NsName, "deployment")

(***************************************************************************)
(* C6                                                                      *)
(***************************************************************************)
\* C6: when a create returns Ok, the namespace, the volume, the claim, the
\* service, the secret mysql-pass and the deployment are in the cluster,
\* each made by a creation call of this invocation.
C6_SuccessMeansFullResourceSet ==
  \A p \in clients :
    (returned = p /\ cur[p].op = "create" /\ cur[p].result = "Ok") =>
      LET c == Creations(cur[p])
      IN /\ Len(c) = 6
         /\ \A i \in 1..6 : c[i].call = CreationOrder[i] /\ c[i].res = "Ok" /\ InCluster(c[i])
         /\ HasNamespace(NsName)
         /\ HasPv(PvName)
         /\ \A kind \in {"pvc", "svc", "secret", "deployment"} : HasObj(NsName, kind)
         /\ \E o \in objs : o.ns = NsName /\ o.kind = "secret" /\ o.name = SecretName

\* a successful create on a cluster that holds other managed namespaces
C6_Witness ==
  /\ returned = 1 /\ cur[1].op = "create" /\ cur[1].result = "Ok"
  /\ Len(namespaces) > 1

(***************************************************************************)
(* C7                                                                      *)
(***************************************************************************)
\* C7 as stated: a remove called while namespace kwpm-mariadb is absent
\* returns the cluster's NotFound.
C7_RemoveAbsentIsNotFound ==
  \A p \in clients :
    (/\ returned = p /\ cur[p].op = "remove"
     /\ \A i \in 1..Len(cur[p].pre[1]) : cur[p].pre[1][i].name # Some(NsName))
      => (cur[p].result = "RemoteAPIError" /\ cur[p].err = "NotFound")

\* C7 amended: a remove called while namespace kwpm-mariadb is absent
\* never returns Ok: it returns the RemoteAPIError of the namespace
\* deletion, which is NotFound whenever the cluster answers the call,
\* issues no volume deletion and leaves the cluster as it was.
C7_RemoveAbsentFails ==
  \A p \in clients :
    (/\ returned = p /\ cur[p].op = "remove"
     /\ \A i \in 1..Len(cur[p].pre[1]) : cur[p].pre[1][i].name # Some(NsName))
      => /\ cur[p].result = "RemoteAPIError"
         /\ Len(cur[p].log) = 1
         /\ cur[p].log[1].call = "delete_ns"
         /\ cur[p].err = cur[p].log[1].res
         /\ cur[p].err \in {"NotFound", "Transport"}
         /\ cluster = cur[p].pre

\* a remove answered NotFound while a volume is left over
C7_Witness ==
  /\ returned = 1 /\ cur[1].op = "remove" /\ cur[1].err = "NotFound"
  /\ Len(cur[1].log) = 1 /\ HasPv(PvName)

(***************************************************************************)
(* C8                                                                      *)
(***************************************************************************)
FailedCreateFromClean(inv) ==
  /\ inv.op = "create" /\ inv.result = "RemoteAPIError"
  /\ Len(Creations(inv)) >= 1
  /\ StartedClean(inv)

\* C8 as stated: the remove that follows a create which failed at a
\* creation step on a clean cluster leaves none of the six resources,
\* whatever it returns.
C8_RemoveAlwaysCleansUp ==
  \A p \in clients :
    (returned = p /\ cur[p].op = "remove" /\ FailedCreateFromClean(prev[p]))
      => NoInstanceResource

\* C8 amended: the same, provided the cluster answers every deletion call
\* of that remove (it returns Ok or a NotFound error).
C8_AnsweredRemoveCleansUp ==
  \A p \in clients :
    (/\ returned = p /\ cur[p].op = "remove" /\ FailedCreateFromClean(prev[p])
     /\ ~Faulted(cur[p]))
      => NoInstanceResource

\* a remove that cleaned up after a create that failed at the secret
C8_Witness ==
  /\ returned = 1 /\ cur[1].op = "remove" /\ ~Faulted(cur[1])
  /\ FailedCreateFromClean(prev[1]) /\ Len(Creations(prev[1])) = 5
  /\ NoInstanceResource

(***************************************************************************)
(* C9                                                                      *)
(***************************************************************************)
\* C9: a create called right after is_mariadb_created returned false, and
\* whose calls are all answered by the cluster, returns Ok.
C9_CreateSucceedsWhenNotCreated ==
  \A p \in clients :
    (/\ returned = p /\ cur[p].op = "create"
     /\ prev[p].op = "is_created" /\ prev[p].result = "false"
     /\ ~Faulted(cur[p]))
      => cur[p].result = "Ok"

(***************************************************************************)
(* C10                                                                     *)
(***************************************************************************)
\* C10: a remove called right after is_mariadb_created returned true, and
\* whose calls are all answered by the cluster, returns Ok.
C10_RemoveSucceedsWhenCreated ==
  \A p \in clients :
    (/\ returned = p /\ cur[p].op = "remove"
     /\ prev[p].op = "is_created" /\ prev[p].result = "true"
     /\ ~Faulted(cur[p]))
      => cur[p].result = "Ok"

(***************************************************************************)
(* C11                                                                     *)
(***************************************************************************)
\* character by character: the name n begins with the word w
NameBeginsWith(n, w) == Len(n) >= Len(w) /\ \A k \in 1..Len(w) : n[k] = w[k]

\* character by character: the name n ends with the word w
NameEndsWith(n, w) ==
  Len(n) >= Len(w) /\ \A k \in 1..Len(w) : n[Len(n) - Len(w) + k] = w[k]

\* positions of a listing that hold a named namespace beginning with kwpm-
ManagedPositions(list) ==
  {i \in 1..Len(list) : list[i].name # None /\ NameBeginsWith(list[i].name[1], KwpmPrefix)}

\* the k-th smallest element of a set of positions
KthOf(positions, k) ==
  CHOOSE i \in positions : Cardinality({j \in positions : j <= i}) = k

\* C11: what get_kwpm_namespaces returns is the listing restricted to the
\* positions that hold a name beginning with kwpm-, in the listing's order:
\* none missing, none extra.
C11_ManagedIsExactlyThePrefixed ==
  \A p \in clients :
    (returned = p /\ cur[p].op = "get_kwpm" /\ cur[p].result = "Ok") =>
      LET pos == ManagedPositions(namespaces)
      IN /\ Len(cur[p].value) = Cardinality(pos)
         /\ \A k \in 1..Len(cur[p].value) : cur[p].value[k] = namespaces[KthOf(pos, k)]

\* two managed namespaces returned out of a listing that also holds a
\* nameless and an unmanaged one
C11_Witness ==
  /\ returned = 1 /\ cur[1].op = "get_kwpm" /\ cur[1].result = "Ok"
  /\ Len(cur[1].value) = 2 /\ Len(namespaces) >= 4
  /\ \E i \in 1..Len(namespaces) : namespaces[i].name = None

(***************************************************************************)
(* C12                                                                     *)
(***************************************************************************)
\* C12: is_mariadb_created is true exactly when a namespace returned by
\* get_kwpm_namespaces has a name ending in -mariadb; it is false when no
\* namespace is managed, and when the only names ending in -mariadb lack
\* the prefix kwpm-.
C12_ExistsIffManagedSuffix ==
  \A p \in clients :
    (returned = p /\ cur[p].op = "is_created" /\ cur[p].result \in {"true", "false"}) =>
      LET managed == get_kwpm_namespaces(namespaces)
          found == \E k \in 1..Len(managed) :
                     managed[k].name # None /\ NameEndsWith(managed[k].name[1], MariadbSuffix)
      IN /\ (cur[p].result = "true") <=> found
         /\ ManagedPositions(namespaces) = {} => cur[p].result = "false"
         /\ (\A i \in 1..Len(namespaces) :
               (namespaces[i].name # None /\ NameEndsWith(namespaces[i].name[1], MariadbSuffix))
                 => ~NameBeginsWith(namespaces[i].name[1], KwpmPrefix))
              => cur[p].result = "false"

\* false although an unmanaged namespace ends in -mariadb and a managed
\* one exists
C12_Witness ==
  /\ returned = 1 /\ cur[1].op = "is_created" /\ cur[1].result = "false"
  /\ ManagedPositions(namespaces) # {}
  /\ \E i \in 1..Len(namespaces) :
       namespaces[i].name # None /\ NameEndsWith(namespaces[i].name[1], MariadbSuffix)

(***************************************************************************)
(* C13                                                                     *)
(***************************************************************************)
\* C13: every persistent volume submitted has as local path the client's
\* storage path followed by /mariadb and as node affinity the single
\* requirement kubernetes.io/hostname In [hostname]; every secret
\* submitted is named mysql-pass and holds the one entry password = the
\* secret value.
C13_SubmittedObjects ==
  \A p \in clients :
    \A i \in 1..Len(cur[p].log) :
      LET r == cur[p].log[i]
      IN /\ r.call = "create_pv" =>
              /\ r.obj.path = pv_base_path \o <<"/","m","a","r","i","a","d","b">>
              /\ Len(r.obj.affinity) = 1
              /\ r.obj.affinity[1].key = "kubernetes.io/hostname"
              /\ r.obj.affinity[1].operator = "In"
              /\ r.obj.affinity[1].values = <<cur[p].hostname>>
         /\ r.call = "create_secret" =>
              /\ r.obj.name = "mysql-pass"
              /\ Len(r.obj.data) = 1
              /\ r.obj.data[1] = <<"password", cur[p].password>>

\* a volume for /d and node-a and a secret for s3cr3t have been submitted
C13_Witness ==
  /\ pv_base_path = <<"/","d">> /\ cur[1].hostname = "node-a" /\ cur[1].password = "s3cr3t"
  /\ \E i \in 1..Len(cur[1].log) : cur[1].log[i].call = "create_pv"
  /\ \E i \in 1..Len(cur[1].log) : cur[1].log[i].call = "create_secret"
  /\ \E v \in pvs : v.path = <<"/","d","/","m","a","r","i","a","d","b">>

(***************************************************************************)
(* C14                                                                     *)
(***************************************************************************)
\* the cluster an invocation started from held namespace kwpm-mariadb but
\* not all of the volume, the claim, the service, the secret, the deployment
StartedPartial(inv) ==
  /\ \E i \in 1..Len(inv.pre[1]) : inv.pre[1][i].name = Some(NsName)
  /\ \/ \A v \in inv.pre[2] : v.name # PvName
     \/ \E kind \in {"pvc", "svc", "secret", "deployment"} :
           \A o \in inv.pre[3] : ~(o.ns = NsName /\ o.kind = kind)

\* C14 as stated: while namespace kwpm-mariadb exists the existence check
\* is true, and a create called on a partial instance returns
\* AlreadyExistsError and issues no creation call.
C14_PartialAlwaysAlreadyExists ==
  /\ HasNamespace(NsName) => is_mariadb_created(namespaces)
  /\ \A p \in clients :
       (returned = p /\ cur[p].op = "create" /\ StartedPartial(cur[p]))
         => (cur[p].result = "AlreadyExistsError" /\ Len(Creations(cur[p])) = 0)

\* C14 amended: while namespace kwpm-mariadb exists the existence check is
\* true, and a create called on a partial instance issues nothing but the
\* listing, leaves the cluster as it was and fails: with
\* AlreadyExistsError when the listing is answered, with RemoteAPIError
\* when the listing fails.
C14_PartialCountsAsExisting ==
  /\ HasNamespace(NsName) => is_mariadb_created(namespaces)
  /\ \A p \in clients :
       (returned = p /\ cur[p].op = "create" /\ StartedPartial(cur[p]))
         => /\ Len(cur[p].log) = 1
            /\ cur[p].log[1].call = "list_ns"
            /\ cluster = cur[p].pre
            /\ cur[p].result = IF cur[p].log[1].res = "Ok" THEN "AlreadyExistsError"
                               ELSE "RemoteAPIError"

\* a create rejected on the namespace and volume left by a create that
\* failed at the claim
C14_Witness ==
  /\ returned = 1 /\ cur[1].op = "create" /\ cur[1].result = "AlreadyExistsError"
  /\ StartedPartial(cur[1])
  /\ prev[1].op = "create" /\ prev[1].result = "RemoteAPIError" /\ Len(Creations(prev[1])) = 3
  /\ HasPv(PvName) /\ ~HasObj(NsName, "pvc")

(***************************************************************************)
(* C16                                                                     *)
(***************************************************************************)
\* C16: remove issues the namespace deletion first and the volume deletion
\* second, and the second only when the first returned Ok; when the
\* namespace deletion fails the cluster is as it was and that error is
\* returned; when the volume deletion fails that error is returned, the
\* namespace is gone and the volumes are as they were.
C16_RemoveSequence ==
  \A p \in clients :
    cur[p].op = "remove" =>
      LET log == cur[p].log
      IN /\ Len(log) \in {1, 2}
         /\ log[1].call = "delete_ns" /\ log[1].obj = NsName
         /\ Len(log) = 2 => (log[1].res = "Ok" /\ log[2].call = "delete_pv"
                             /\ log[2].obj = "kwpm-mariadb-pv")
         /\ log[1].res # "Ok" =>
              /\ Len(log) = 1 /\ pc[p] = "idle"
              /\ cur[p].result = "RemoteAPIError" /\ cur[p].err = log[1].res
              /\ returned = p => cluster = cur[p].pre
         /\ (Len(log) = 2 /\ log[2].res # "Ok") =>
              /\ pc[p] = "idle"
              /\ cur[p].result = "RemoteAPIError" /\ cur[p].err = log[2].res
              /\ returned = p => (~HasNamespace(NsName) /\ pvs = cur[p].pre[2])

\* a remove that deleted the namespace and then failed on the volume
C16_Witness ==
  /\ returned = 1 /\ cur[1].op = "remove" /\ cur[1].result = "RemoteAPIError"
  /\ Len(cur[1].log) = 2 /\ cur[1].log[2].res = "Transport"
  /\ ~HasNamespace(NsName) /\ HasPv(PvName)
  /\ \E i \in 1..Len(cur[1].pre[1]) : cur[1].pre[1][i].name = Some(NsName)

(***************************************************************************)
(* C17                                                                     *)
(***************************************************************************)
\* C17: a create called with the empty hostname does not return Ok and
\* submits no persistent volume whose affinity values hold the empty
\* string.
C17_EmptyHostnameRejected ==
  \A p \in clients :
    (cur[p].op = "create" /\ cur[p].hostname = "") =>
      /\ cur[p].result # "Ok"
      /\ \A i \in 1..Len(cur[p].log) :
           cur[p].log[i].call = "create_pv" =>
             \A k \in 1..Len(cur[p].log[i].obj.affinity) :
               \A v \in 1..Len(cur[p].log[i].obj.affinity[k].values) :
                 cur[p].log[i].obj.affinity[k].values[v] # ""

(***************************************************************************)
(* C20                                                                     *)
(***************************************************************************)
NamespaceIn(pre) == \E i \in 1..Len(pre[1]) : pre[1][i].name = Some(NsName)

VolumeIn(pre) == \E v \in pre[2] : v.name = "kwpm-mariadb-pv"

\* the volume without the namespace
StartedOrphan(inv) == VolumeIn(inv.pre) /\ ~NamespaceIn(inv.pre)

\* a remove called in the orphan state fails at the namespace deletion and
\* changes nothing
OrphanRemoveFails(p) ==
  (returned = p /\ cur[p].op = "remove" /\ StartedOrphan(cur[p])) =>
    /\ cur[p].result = "RemoteAPIError"
    /\ Len(cur[p].log) = 1 /\ cur[p].log[1].call = "delete_ns"
    /\ cluster = cur[p].pre

\* a create called in the orphan state lists, creates the namespace and
\* is refused the volume
OrphanCreateFailsAtVolume(p) ==
  /\ cur[p].result = "RemoteAPIError"
  /\ Len(cur[p].log) = 3
  /\ cur[p].log[1].call = "list_ns" /\ cur[p].log[1].res = "Ok"
  /\ cur[p].log[2].call = "create_ns" /\ cur[p].log[2].res = "Ok"
  /\ cur[p].log[3].call = "create_pv" /\ cur[p].log[3].res # "Ok"
  /\ HasNamespace(NsName) /\ pvs = cur[p].pre[2] /\ objs = {}

\* an invocation that started with the volume and ends with none of the
\* six resources is a successful remove that started with the namespace
OnlyRemoveAfterNamespaceEmpties(p) ==
  (returned = p /\ VolumeIn(cur[p].pre) /\ NoInstanceResource) =>
    /\ cur[p].op = "remove" /\ cur[p].result = "Ok"
    /\ NamespaceIn(cur[p].pre)

\* C20 as stated: in the orphan state every remove fails at the namespace
\* deletion and leaves the volume, every create passes the check, creates
\* the namespace and fails at the volume, and the cluster becomes empty
\* only by a remove that follows such a create.
C20_OrphanEveryCreateReachesVolume ==
  \A p \in clients :
    /\ OrphanRemoveFails(p)
    /\ (returned = p /\ cur[p].op = "create" /\ StartedOrphan(cur[p]))
         => OrphanCreateFailsAtVolume(p)
    /\ OnlyRemoveAfterNamespaceEmpties(p)

\* C20 amended: the same, where a create called in the orphan state always
\* fails, and passes the check, creates the namespace and fails at the
\* volume with the cluster's conflict when all its calls are answered.
C20_OrphanState ==
  \A p \in clients :
    /\ OrphanRemoveFails(p)
    /\ (returned = p /\ cur[p].op = "create" /\ StartedOrphan(cur[p])) =>
         /\ cur[p].result = "RemoteAPIError"
         /\ ~Faulted(cur[p]) => (OrphanCreateFailsAtVolume(p) /\ cur[p].err = "Conflict")
    /\ OnlyRemoveAfterNamespaceEmpties(p)

\* a create refused the volume in the orphan state left by a remove that
\* failed on the volume
C20_Witness ==
  /\ returned = 1 /\ cur[1].op = "create" /\ StartedOrphan(cur[1])
  /\ cur[1].err = "Conflict" /\ HasNamespace(NsName) /\ HasPv(PvName)
  /\ prev[1].op = "remove" /\ prev[1].result = "RemoteAPIError" /\ Len(prev[1].log) = 2

(***************************************************************************)
(* C15                                                                     *)
(***************************************************************************)
\* the invocation passed the existence check and issued a creation call
PassedCheck(inv) == inv.op = "create" /\ Len(Creations(inv)) >= 1

\* C15: when two concurrent creates have both passed the existence check
\* and issued creation calls, one that is answered a conflict returns
\* RemoteAPIError, not AlreadyExistsError, having created nothing, and the
\* namespace the other one created is in the cluster.
C15_RaceLoserGetsRemoteError ==
  \A p \in clients : \A q \in clients \ {p} :
    (PassedCheck(cur[p]) /\ PassedCheck(cur[q]) /\ cur[p].err = "Conflict") =>
      /\ cur[p].result = "RemoteAPIError"
      /\ pc[p] = "idle"
      /\ \A i \in 1..Len(Creations(cur[p])) : Creations(cur[p])[i].res # "Ok"
      /\ CreatedNamespace(cur[q])
      /\ HasNamespace(NsName)

\* both clients passed the check on a cluster without an instance; the
\* second was answered a conflict, the first got as far as the volume and
\* failed: namespace and volume are left without a deployment
C15_Witness ==
  /\ PassedCheck(cur[1]) /\ PassedCheck(cur[2])
  /\ ~is_mariadb_created(cur[1].pre[1]) /\ ~is_mariadb_created(cur[2].pre[1])
  /\ cur[2].result = "RemoteAPIError" /\ cur[2].err = "Conflict"
  /\ cur[1].result = "RemoteAPIError" /\ Len(Creations(cur[1])) = 3
  /\ HasNamespace(NsName) /\ HasPv(PvName) /\ ~HasObj(NsName, "deployment")

(***************************************************************************)
(* C18                                                                     *)
(***************************************************************************)
\* positions of the namespaces whose name begins with kwpm- and ends with
\* -mariadb
InstancePositions ==
  {i \in ManagedPositions(namespaces) : NameEndsWith(namespaces[i].name[1], MariadbSuffix)}

\* C18: whatever two clients' creates and removes do, interleaved and with
\* any call failing, at most one namespace beginning with kwpm- and ending
\* with -mariadb exists (from a cluster that holds none, or one of another
\* owner).
C18_AtMostOneInstanceNamespace == Cardinality(InstancePositions) <= 1

\* the namespace exists, made by the first client, after the second
\* client's creation of it was answered a conflict
C18_Witness ==
  /\ Cardinality(InstancePositions) = 1 /\ HasNamespace(NsName)
  /\ CreatedNamespace(cur[1])
  /\ cur[2].op = "create" /\ cur[2].err = "Conflict" /\ Len(Creations(cur[2])) = 1

(***************************************************************************)
(* C19                                                                     *)
(***************************************************************************)
\* the successful calls of one kind over both invocations
SuccessfulCalls(call) ==
  {pi \in clients \X (1..8) :
     /\ pi[2] <= Len(cur[pi[1]].log)
     /\ cur[pi[1]].log[pi[2]].call = call
     /\ cur[pi[1]].log[pi[2]].res = "Ok"}

\* C19: of two concurrent creates with no remove at most one returns Ok,
\* and each of the six resources is created by at most one successful call.
C19_AtMostOneCreateSucceeds ==
  /\ ~(cur[1].result = "Ok" /\ cur[2].result = "Ok")
  /\ \A call \in CreationCalls : Cardinality(SuccessfulCalls(call)) <= 1

\* both passed the check; one returned Ok and the other the conflict
C19_Witness ==
  /\ PassedCheck(cur[1]) /\ PassedCheck(cur[2])
  /\ cur[1].result = "Ok" /\ Len(Creations(cur[1])) = 6
  /\ cur[2].result = "RemoteAPIError" /\ cur[2].err = "Conflict"

====
